---- MODULE Spec2Model ----
(***************************************************************************)
(* Model of the USRP visualizer (src/main.cpp): the RadioWorker thread     *)
(* (connection attempt, signal generation loop, burst framing, snapshot    *)
(* publish) and the GUI thread of MainWindow (toggleConnection, the        *)
(* parameter handlers, the single-shot status timer and updatePlot).       *)
(*                                                                         *)
(* Units.  The phase accumulator is counted in increments: one increment   *)
(* is 2*pi*current_freq/sample_rate, so a full turn (2*pi) is PhasePeriod  *)
(* increments.  cos and sin are tabulated in thousandths, amplitudes are   *)
(* counted in tenths, so a sample component is in units of 1/10000.        *)
(*                                                                         *)
(* A buffer of buff_size samples is held as NChunks consecutive pieces;    *)
(* a piece records the amplitude, the waveform type and the phase of its   *)
(* first sample (which determine every sample of the piece) and the run    *)
(* and cycle that generated it.  A vector copy moves one piece per step.   *)
(***************************************************************************)
EXTENDS Integers, Sequences, FiniteSets, TLC

\* ---------------------------------------------------------------- bounds
MaxStarts == 2
MaxCycles == 2
MaxWrites == 1
NChunks == 2
LongRunCycles == 10
WrapCycles == 25

\* ------------------------------------------------------ program constants
buff_size == 2048
current_freq == 10000
sample_rate == 1000000
FreqInit == 915
GainInit == 40
AmpInit == 10

PhasePeriod == sample_rate \div current_freq

\* inputs of the handlers
DeviceIds == {"", "dev"}
AmpValues == {5, 10}
WaveValues == {0, 1}
FreqValues == {915, 2400}
GainValues == {40, 60}
ConnectSteps == 1..5

\* --------------------------------------------------------- pure functions
\* 1000 * cos(2*pi*p/PhasePeriod), p = 0 .. 99
CosTable ==
  << 1000, 998, 992, 982, 969, 951, 930, 905, 876, 844,
     809, 771, 729, 685, 637, 588, 536, 482, 426, 368,
     309, 249, 187, 125, 63, 0, -63, -125, -187, -249,
     -309, -368, -426, -482, -536, -588, -637, -685, -729, -771,
     -809, -844, -876, -905, -930, -951, -969, -982, -992, -998,
     -1000, -998, -992, -982, -969, -951, -930, -905, -876, -844,
     -809, -771, -729, -685, -637, -588, -536, -482, -426, -368,
     -309, -249, -187, -125, -63, 0, 63, 125, 187, 249,
     309, 368, 426, 482, 536, 588, 637, 685, 729, 771,
     809, 844, 876, 905, 930, 951, 969, 982, 992, 998 >>

Cos(p) == CosTable[(p % PhasePeriod) + 1]

Sin(p) == CosTable[((p + 3 * (PhasePeriod \div 4)) % PhasePeriod) + 1]

\* phase += increment; if (phase > 2*M_PI) phase -= 2*M_PI;
PhaseStep(p) == IF p + 1 > PhasePeriod THEN p + 1 - PhasePeriod ELSE p + 1

\* StepPow[k][p]: the phase 2^k iterations of the sample loop after p
StepPow[k \in 0..16] ==
  IF k = 0
    THEN [p \in 0..PhasePeriod |-> PhaseStep(p)]
    ELSE [p \in 0..PhasePeriod |-> StepPow[k - 1][StepPow[k - 1][p]]]

\* the phase n iterations after p, taking the binary digits of n from bit k
RECURSIVE PhaseAfterBits(_, _, _)
PhaseAfterBits(p, n, k) ==
  IF n = 0 THEN p
  ELSE PhaseAfterBits(IF n % 2 = 1 THEN StepPow[k][p] ELSE p, n \div 2, k + 1)

\* the phase after n iterations of the sample loop (n < 2^17)
PhaseAfter(p, n) == PhaseAfterBits(p, n, 0)

\* the phases of n consecutive samples starting at phase p (the phases
\* repeat with period PhasePeriod from the second sample on)
PhasesFrom(p, n) ==
  {PhaseAfter(p, i) : i \in 0..(IF n - 1 < PhasePeriod THEN n - 1 ELSE PhasePeriod)}

\* buff[i] = complex(val_i * amp, val_q * amp) for one sample at phase p
SampleOf(type, amp, p) ==
  IF type = 0
    THEN [re |-> Cos(p) * amp, im |-> Sin(p) * amp]
    ELSE [re |-> (IF Cos(p) > 0 THEN 1000 ELSE -1000) * amp,
          im |-> (IF Sin(p) > 0 THEN 1000 ELSE -1000) * amp]

\* index of the first sample of piece k (k = NChunks + 1 gives buff_size)
ChunkStart(k) == ((k - 1) * buff_size) \div NChunks

ChunkLen(k) == ChunkStart(k + 1) - ChunkStart(k)

\* the buffer one pass of the sample loop fills, starting at phase p
GenBuffer(type, amp, p, r, c) ==
  [k \in 1..NChunks |->
     [run |-> r, cyc |-> c, idx |-> k, amp |-> amp, type |-> type,
      ph0 |-> PhaseAfter(p, ChunkStart(k))]]

\* number of samples a vector holds
SizeOf(v) ==
  IF Len(v) = 0 THEN 0 ELSE ChunkStart(Len(v) + 1)

\* sample i (0-based) of vector v
SampleAt(v, i) ==
  LET k == CHOOSE j \in 1..Len(v) : ChunkStart(j) <= i /\ i < ChunkStart(j + 1)
  IN SampleOf(v[k].type, v[k].amp, PhaseAfter(v[k].ph0, i - ChunkStart(k)))

\* every sample of v has both components at +amp or -amp of its piece
AllPlusMinusAmp(v) ==
  \A k \in 1..Len(v) :
    \A p \in PhasesFrom(v[k].ph0, ChunkLen(k)) :
      LET s == SampleOf(v[k].type, v[k].amp, p)
      IN /\ s.re \in {1000 * v[k].amp, -1000 * v[k].amp}
         /\ s.im \in {1000 * v[k].amp, -1000 * v[k].amp}

\* uhd::usrp::multi_usrp::sptr as default-constructed: no device
UsrpNull == [open |-> FALSE, rate |-> 0, freq |-> 0, gain |-> 0]

\* uhd::tx_metadata_t as default-constructed
MdDefault == [start_of_burst |-> FALSE, end_of_burst |-> FALSE]

\* ------------------------------------------------------------------ state
VARIABLES
  \* RadioWorker members
  running, hardware_connected, frequency, gain, amplitude, waveform_type,
  data_mutex, shared_buffer, device_args,
  \* RadioWorker::run: position and locals
  pc, usrp, tx_stream, md, buff, phase, amp, type, ci,
  \* GUI thread: position, updatePlot's local copy, widgets (status text,
  \* checked state of the connect button), armed timers
  gpc, local_data, gi, statusLabel, connectBtn, timers,
  \* history: starts so far, register writes so far, cycles of all runs,
  \* cycles of this run,
  \* outcome of this run's connection attempt, calls of tx_stream->send in
  \* this run, data sends and publishes since the stop request, state of
  \* the latest SQUARE selection, outcome of the latest publish, publishes
  \* of this run, and what ended the process abnormally
  starts, writes, spent, cyc, conn, tx_log, afterStop, sqPending,
  lastPublish, pubCount, fault

members == <<running, hardware_connected, frequency, gain, amplitude,
             waveform_type, data_mutex, shared_buffer, device_args>>
locals == <<pc, usrp, tx_stream, md, buff, phase, amp, type, ci>>
gui == <<gpc, local_data, gi, statusLabel, connectBtn, timers>>
history == <<starts, writes, spent, cyc, conn, tx_log, afterStop, sqPending,
             lastPublish, pubCount, fault>>
vars == <<members, locals, gui, history>>

\* QThread::isRunning(): started and run() has not returned
isRunning == pc \notin {"stopped", "aborted"}

\* the process is alive (not ended by std::terminate or a fault)
alive == pc /= "aborted"

\* the GUI thread is in its event loop, free to run the next handler
guiIdle == alive /\ gpc = "idle"

NoStop == [sends |-> 0, pubs |-> 0]

Init ==
  /\ running = TRUE
  /\ hardware_connected = FALSE
  /\ frequency = FreqInit
  /\ gain = GainInit
  /\ amplitude = AmpInit
  /\ waveform_type = 0
  /\ data_mutex = "free"
  /\ shared_buffer = << >>
  /\ device_args = ""
  /\ pc = "stopped"
  /\ usrp = UsrpNull
  /\ tx_stream = "null"
  /\ md = MdDefault
  /\ buff = << >>
  /\ phase = 0
  /\ amp = 0
  /\ type = 0
  /\ ci = 0
  /\ gpc = "idle"
  /\ local_data = << >>
  /\ gi = 0
  /\ statusLabel = "STANDBY"
  /\ connectBtn = FALSE
  /\ timers = 0
  /\ starts = 0
  /\ writes = 0
  /\ spent = 0
  /\ cyc = 0
  /\ conn = "none"
  /\ tx_log = << >>
  /\ afterStop = NoStop
  /\ sqPending = "no"
  /\ lastPublish = "none"
  /\ pubCount = 0
  /\ fault = "none"

\* ------------------------------------------------ GUI thread (MainWindow)
\* ToggleStart without the isRunning() test: start() on any click
ToggleStart_WhileRunning(args) ==
  /\ guiIdle
  /\ starts < MaxStarts
  /\ connectBtn' = ~connectBtn
  /\ device_args' = args
  /\ running' = TRUE
  /\ pc' = "connect"
  /\ usrp' = UsrpNull
  /\ tx_stream' = "null"
  /\ md' = MdDefault
  /\ timers' = timers + 1
  /\ starts' = starts + 1
  /\ cyc' = 0
  /\ conn' = "none"
  /\ tx_log' = << >>
  /\ afterStop' = NoStop
  /\ sqPending' = "no"
  /\ lastPublish' = "none"
  /\ pubCount' = 0
  /\ UNCHANGED <<hardware_connected, frequency, gain, amplitude,
                 waveform_type, data_mutex, shared_buffer>>
  /\ UNCHANGED <<buff, phase, amp, type, ci>>
  /\ UNCHANGED <<gpc, local_data, gi, statusLabel>>
  /\ UNCHANGED <<writes, spent, fault>>

\* a click on the checkable connect button (it toggles the checked state),
\* toggleConnection, else branch: start the worker for the selected device
ToggleStart(args) ==
  /\ guiIdle
  /\ ~isRunning
  /\ starts < MaxStarts
  /\ connectBtn' = ~connectBtn
  /\ device_args' = args
  /\ running' = TRUE
  /\ pc' = "connect"
  /\ usrp' = UsrpNull
  /\ tx_stream' = "null"
  /\ md' = MdDefault
  /\ timers' = timers + 1
  /\ starts' = starts + 1
  /\ cyc' = 0
  /\ conn' = "none"
  /\ tx_log' = << >>
  /\ afterStop' = NoStop
  /\ sqPending' = "no"
  /\ lastPublish' = "none"
  /\ pubCount' = 0
  /\ UNCHANGED <<hardware_connected, frequency, gain, amplitude,
                 waveform_type, data_mutex, shared_buffer>>
  /\ UNCHANGED <<buff, phase, amp, type, ci>>
  /\ UNCHANGED <<gpc, local_data, gi, statusLabel>>
  /\ UNCHANGED <<writes, spent, fault>>

\* a click on the connect button, toggleConnection, if branch:
\* running = false, then block in wait()
ToggleStop ==
  /\ guiIdle
  /\ isRunning
  /\ running' = FALSE
  /\ connectBtn' = ~connectBtn
  /\ gpc' = "wait"
  /\ UNCHANGED <<hardware_connected, frequency, gain, amplitude,
                 waveform_type, data_mutex, shared_buffer, device_args>>
  /\ UNCHANGED locals
  /\ UNCHANGED <<local_data, gi, statusLabel, timers>>
  /\ UNCHANGED history

\* toggleConnection, if branch: wait() returns, the status is reset
WaitDone ==
  /\ alive
  /\ gpc = "wait"
  /\ pc = "stopped"
  /\ statusLabel' = "STANDBY"
  /\ connectBtn' = FALSE
  /\ gpc' = "idle"
  /\ UNCHANGED members
  /\ UNCHANGED locals
  /\ UNCHANGED <<local_data, gi, timers>>
  /\ UNCHANGED history

\* the lambda of QTimer::singleShot(500, ...) armed by a start
TimerFired ==
  /\ guiIdle
  /\ timers > 0
  /\ timers' = timers - 1
  /\ statusLabel' = IF hardware_connected THEN "TX ACTIVE" ELSE "SIMULATION"
  /\ connectBtn' = TRUE
  /\ UNCHANGED members
  /\ UNCHANGED locals
  /\ UNCHANGED <<gpc, local_data, gi>>
  /\ UNCHANGED history

\* freqBox valueChanged: worker->frequency = v
SetFrequency(v) ==
  /\ guiIdle
  /\ writes < MaxWrites
  /\ v /= frequency
  /\ frequency' = v
  /\ writes' = writes + 1
  /\ UNCHANGED <<running, hardware_connected, gain, amplitude,
                 waveform_type, data_mutex, shared_buffer, device_args>>
  /\ UNCHANGED locals
  /\ UNCHANGED gui
  /\ UNCHANGED <<starts, spent, cyc, conn, tx_log, afterStop, sqPending,
                 lastPublish, pubCount, fault>>

\* gainBox valueChanged: worker->gain = v
SetGain(v) ==
  /\ guiIdle
  /\ writes < MaxWrites
  /\ v /= gain
  /\ gain' = v
  /\ writes' = writes + 1
  /\ UNCHANGED <<running, hardware_connected, frequency, amplitude,
                 waveform_type, data_mutex, shared_buffer, device_args>>
  /\ UNCHANGED locals
  /\ UNCHANGED gui
  /\ UNCHANGED <<starts, spent, cyc, conn, tx_log, afterStop, sqPending,
                 lastPublish, pubCount, fault>>

\* ampBox valueChanged: worker->amplitude = v
SetAmplitude(v) ==
  /\ guiIdle
  /\ writes < MaxWrites
  /\ v /= amplitude
  /\ amplitude' = v
  /\ writes' = writes + 1
  /\ UNCHANGED <<running, hardware_connected, frequency, gain,
                 waveform_type, data_mutex, shared_buffer, device_args>>
  /\ UNCHANGED locals
  /\ UNCHANGED gui
  /\ UNCHANGED <<starts, spent, cyc, conn, tx_log, afterStop, sqPending,
                 lastPublish, pubCount, fault>>

\* waveCombo currentIndexChanged: worker->waveform_type = idx
SetWaveform(idx) ==
  /\ guiIdle
  /\ writes < MaxWrites
  /\ idx /= waveform_type
  /\ waveform_type' = idx
  /\ writes' = writes + 1
  /\ sqPending' = IF idx = 1 /\ isRunning THEN "written" ELSE "no"
  /\ UNCHANGED <<running, hardware_connected, frequency, gain, amplitude,
                 data_mutex, shared_buffer, device_args>>
  /\ UNCHANGED locals
  /\ UNCHANGED gui
  /\ UNCHANGED <<starts, spent, cyc, conn, tx_log, afterStop, lastPublish, pubCount, fault>>

\* updatePlot: data_mutex.lock(), blocking while the worker holds it
PlotLock ==
  /\ guiIdle
  /\ data_mutex = "free"
  /\ data_mutex' = "gui"
  /\ local_data' = << >>
  /\ gi' = 0
  /\ gpc' = "plot"
  /\ UNCHANGED <<running, hardware_connected, frequency, gain, amplitude,
                 waveform_type, shared_buffer, device_args>>
  /\ UNCHANGED locals
  /\ UNCHANGED <<statusLabel, connectBtn, timers>>
  /\ UNCHANGED history

\* updatePlot: local_data = shared_buffer, one piece of the vector copy
PlotCopy ==
  /\ alive
  /\ gpc = "plot"
  /\ gi < Len(shared_buffer)
  /\ local_data' = Append(local_data, shared_buffer[gi + 1])
  /\ gi' = gi + 1
  /\ UNCHANGED members
  /\ UNCHANGED locals
  /\ UNCHANGED <<gpc, statusLabel, connectBtn, timers>>
  /\ UNCHANGED history

\* updatePlot: data_mutex.unlock(); the rest of the handler only draws
PlotUnlock ==
  /\ alive
  /\ gpc = "plot"
  /\ gi >= Len(shared_buffer)
  /\ data_mutex' = "free"
  /\ gpc' = "idle"
  /\ local_data' = << >>
  /\ gi' = 0
  /\ UNCHANGED <<running, hardware_connected, frequency, gain, amplitude,
                 waveform_type, shared_buffer, device_args>>
  /\ UNCHANGED locals
  /\ UNCHANGED <<statusLabel, connectBtn, timers>>
  /\ UNCHANGED history

\* --------------------------------------------- worker (RadioWorker::run)
\* one call of tx_stream->send as the log records it
SendCall(kind, m, stream) ==
  [kind |-> kind, start_of_burst |-> m.start_of_burst,
   end_of_burst |-> m.end_of_burst, stream |-> stream]

\* run() is over: the thread finishes and its locals are destroyed
RunReturns ==
  /\ pc' = "stopped"
  /\ usrp' = UsrpNull
  /\ tx_stream' = "null"
  /\ md' = MdDefault
  /\ buff' = << >>
  /\ phase' = 0
  /\ amp' = 0
  /\ type' = 0
  /\ ci' = 0

\* an exception leaves run(), or a null stream is called and faults: the
\* process ends
ProcessEnds(why) ==
  /\ pc' = "aborted"
  /\ fault' = why
  /\ UNCHANGED <<usrp, tx_stream, md, buff, phase, amp, type, ci>>

\* ConnectSkipped that leaves the try block out whatever device is selected
ConnectSkipped_AnyDevice ==
  /\ pc = "connect"
  /\ pc' = "loop"
  /\ buff' = << >>
  /\ phase' = 0
  /\ conn' = "sim"
  /\ UNCHANGED members
  /\ UNCHANGED <<usrp, tx_stream, md, amp, type, ci>>
  /\ UNCHANGED gui
  /\ UNCHANGED <<starts, writes, spent, cyc, tx_log, afterStop, sqPending,
                 lastPublish, pubCount, fault>>

\* connection attempt, device_args empty: the try block does nothing
ConnectSkipped ==
  /\ pc = "connect"
  /\ device_args = ""
  /\ pc' = "loop"
  /\ buff' = << >>
  /\ phase' = 0
  /\ conn' = "sim"
  /\ UNCHANGED members
  /\ UNCHANGED <<usrp, tx_stream, md, amp, type, ci>>
  /\ UNCHANGED gui
  /\ UNCHANGED <<starts, writes, spent, cyc, tx_log, afterStop, sqPending,
                 lastPublish, pubCount, fault>>

\* connection attempt, every step succeeds
ConnectOk ==
  /\ pc = "connect"
  /\ device_args /= ""
  /\ usrp' = [open |-> TRUE, rate |-> sample_rate, freq |-> frequency,
              gain |-> gain]
  /\ tx_stream' = "stream"
  /\ md' = [start_of_burst |-> TRUE, end_of_burst |-> FALSE]
  /\ hardware_connected' = TRUE
  /\ pc' = "loop"
  /\ buff' = << >>
  /\ phase' = 0
  /\ conn' = "ok"
  /\ UNCHANGED <<running, frequency, gain, amplitude, waveform_type,
                 data_mutex, shared_buffer, device_args>>
  /\ UNCHANGED <<amp, type, ci>>
  /\ UNCHANGED gui
  /\ UNCHANGED <<starts, writes, spent, cyc, tx_log, afterStop, sqPending,
                 lastPublish, pubCount, fault>>

\* ConnectFail with a catch block that leaves hardware_connected as it was
ConnectFail_KeepsFlag(failStep) ==
  /\ pc = "connect"
  /\ device_args /= ""
  /\ usrp' = [UsrpNull EXCEPT !.open = failStep > 1]
  /\ pc' = "loop"
  /\ buff' = << >>
  /\ phase' = 0
  /\ conn' = "fail"
  /\ UNCHANGED members
  /\ UNCHANGED <<tx_stream, md, amp, type, ci>>
  /\ UNCHANGED gui
  /\ UNCHANGED <<starts, writes, spent, cyc, tx_log, afterStop, sqPending,
                 lastPublish, pubCount, fault>>

\* connection attempt, step failStep throws (1 make, 2 set_tx_rate,
\* 3 set_tx_freq, 4 set_tx_gain, 5 get_tx_stream): catch (...).  The device
\* is open when a step after make throws; the settings of a device that
\* never streams are not recorded
ConnectFail(failStep) ==
  /\ pc = "connect"
  /\ device_args /= ""
  /\ usrp' = [UsrpNull EXCEPT !.open = failStep > 1]
  /\ hardware_connected' = FALSE
  /\ pc' = "loop"
  /\ buff' = << >>
  /\ phase' = 0
  /\ conn' = "fail"
  /\ UNCHANGED <<running, frequency, gain, amplitude, waveform_type,
                 data_mutex, shared_buffer, device_args>>
  /\ UNCHANGED <<tx_stream, md, amp, type, ci>>
  /\ UNCHANGED gui
  /\ UNCHANGED <<starts, writes, spent, cyc, tx_log, afterStop, sqPending,
                 lastPublish, pubCount, fault>>

\* while (running): enter the next cycle (at most cap cycles in all)
LoopEnter(cap) ==
  /\ pc = "loop"
  /\ running
  /\ spent < cap
  /\ pc' = "load_amp"
  /\ UNCHANGED members
  /\ UNCHANGED <<usrp, tx_stream, md, buff, phase, amp, type, ci>>
  /\ UNCHANGED gui
  /\ UNCHANGED history

\* while (running): the flag is false, leave the loop
LoopExit ==
  /\ pc = "loop"
  /\ ~running
  /\ pc' = "burst_end"
  /\ UNCHANGED members
  /\ UNCHANGED <<usrp, tx_stream, md, buff, phase, amp, type, ci>>
  /\ UNCHANGED gui
  /\ UNCHANGED history

\* LoadAmp hoisted out of the loop: the amplitude is read in the first
\* cycle of a run only
LoadAmp_Once ==
  /\ pc = "load_amp"
  /\ amp' = IF cyc = 0 THEN amplitude ELSE amp
  /\ pc' = "load_type"
  /\ UNCHANGED members
  /\ UNCHANGED <<usrp, tx_stream, md, buff, phase, type, ci>>
  /\ UNCHANGED gui
  /\ UNCHANGED history

\* double amp = amplitude.load()
LoadAmp ==
  /\ pc = "load_amp"
  /\ amp' = amplitude
  /\ pc' = "load_type"
  /\ UNCHANGED members
  /\ UNCHANGED <<usrp, tx_stream, md, buff, phase, type, ci>>
  /\ UNCHANGED gui
  /\ UNCHANGED history

\* LoadType that keeps the selector value of the previous cycle
LoadType_Stale ==
  /\ pc = "load_type"
  /\ type' = type
  /\ pc' = "generate"
  /\ sqPending' = IF sqPending = "written" THEN "loaded" ELSE sqPending
  /\ UNCHANGED members
  /\ UNCHANGED <<usrp, tx_stream, md, buff, phase, amp, ci>>
  /\ UNCHANGED gui
  /\ UNCHANGED <<starts, writes, spent, cyc, conn, tx_log, afterStop, lastPublish,
                 pubCount, fault>>

\* int type = waveform_type.load()
LoadType ==
  /\ pc = "load_type"
  /\ type' = waveform_type
  /\ pc' = "generate"
  /\ sqPending' = IF sqPending = "written" THEN "loaded" ELSE sqPending
  /\ UNCHANGED members
  /\ UNCHANGED <<usrp, tx_stream, md, buff, phase, amp, ci>>
  /\ UNCHANGED gui
  /\ UNCHANGED <<starts, writes, spent, cyc, conn, tx_log, afterStop, lastPublish, pubCount,
                 fault>>

\* Generate with the phase accumulator restarted at 0 in every cycle
Generate_FromZero ==
  /\ pc = "generate"
  /\ buff' = GenBuffer(type, amp, 0, starts, cyc + 1)
  /\ phase' = PhaseAfter(0, buff_size)
  /\ cyc' = cyc + 1
  /\ spent' = spent + 1
  /\ pc' = "send"
  /\ UNCHANGED members
  /\ UNCHANGED <<usrp, tx_stream, md, amp, type, ci>>
  /\ UNCHANGED gui
  /\ UNCHANGED <<starts, writes, conn, tx_log, afterStop, sqPending,
                 lastPublish, pubCount, fault>>

\* Generate that reads the amplitude register again for the later pieces
Generate_RereadsAmplitude ==
  /\ pc = "generate"
  /\ buff' = [k \in 1..NChunks |->
               [GenBuffer(type, amp, phase, starts, cyc + 1)[k]
                  EXCEPT !.amp = IF k = 1 THEN amp ELSE amplitude]]
  /\ phase' = PhaseAfter(phase, buff_size)
  /\ cyc' = cyc + 1
  /\ spent' = spent + 1
  /\ pc' = "send"
  /\ UNCHANGED members
  /\ UNCHANGED <<usrp, tx_stream, md, amp, type, ci>>
  /\ UNCHANGED gui
  /\ UNCHANGED <<starts, writes, conn, tx_log, afterStop, sqPending,
                 lastPublish, pubCount, fault>>

\* the sample loop: fill buff, advance phase by buff_size increments
Generate ==
  /\ pc = "generate"
  /\ buff' = GenBuffer(type, amp, phase, starts, cyc + 1)
  /\ phase' = PhaseAfter(phase, buff_size)
  /\ cyc' = cyc + 1
  /\ spent' = spent + 1
  /\ pc' = "send"
  /\ UNCHANGED members
  /\ UNCHANGED <<usrp, tx_stream, md, amp, type, ci>>
  /\ UNCHANGED gui
  /\ UNCHANGED <<starts, writes, conn, tx_log, afterStop, sqPending,
                 lastPublish, pubCount, fault>>

\* SendData that never clears start_of_burst
SendData_KeepsStart ==
  /\ pc = "send"
  /\ hardware_connected
  /\ tx_stream /= "null"
  /\ tx_log' = Append(tx_log, SendCall("data", md, tx_stream))
  /\ afterStop' = IF running THEN afterStop
                  ELSE [afterStop EXCEPT !.sends = @ + 1]
  /\ pc' = "publish"
  /\ UNCHANGED members
  /\ UNCHANGED <<usrp, tx_stream, md, buff, phase, amp, type, ci>>
  /\ UNCHANGED gui
  /\ UNCHANGED <<starts, writes, spent, cyc, conn, sqPending, lastPublish, pubCount,
                 fault>>

\* hardware_connected, tx_stream->send(buff) returns; start_of_burst = false
SendData ==
  /\ pc = "send"
  /\ hardware_connected
  /\ tx_stream /= "null"
  /\ tx_log' = Append(tx_log, SendCall("data", md, tx_stream))
  /\ md' = [md EXCEPT !.start_of_burst = FALSE]
  /\ afterStop' = IF running THEN afterStop
                  ELSE [afterStop EXCEPT !.sends = @ + 1]
  /\ pc' = "publish"
  /\ UNCHANGED members
  /\ UNCHANGED <<usrp, tx_stream, buff, phase, amp, type, ci>>
  /\ UNCHANGED gui
  /\ UNCHANGED <<starts, writes, spent, cyc, conn, sqPending, lastPublish, pubCount, fault>>

\* hardware_connected, tx_stream->send(buff) throws: nothing catches it
SendThrows ==
  /\ pc = "send"
  /\ hardware_connected
  /\ tx_stream /= "null"
  /\ tx_log' = Append(tx_log, SendCall("data", md, tx_stream))
  /\ ProcessEnds("send_throw")
  /\ UNCHANGED members
  /\ UNCHANGED gui
  /\ UNCHANGED <<starts, writes, spent, cyc, conn, afterStop, sqPending,
                 lastPublish, pubCount>>

\* hardware_connected but tx_stream is null: the call is undefined
\* behaviour; it either faults or returns
SendOnNull(faults) ==
  /\ pc = "send"
  /\ hardware_connected
  /\ tx_stream = "null"
  /\ tx_log' = Append(tx_log, SendCall("data", md, tx_stream))
  /\ IF faults
       THEN /\ ProcessEnds("null_call")
            /\ UNCHANGED afterStop
       ELSE /\ md' = [md EXCEPT !.start_of_burst = FALSE]
            /\ afterStop' = IF running THEN afterStop
                            ELSE [afterStop EXCEPT !.sends = @ + 1]
            /\ pc' = "publish"
            /\ UNCHANGED <<usrp, tx_stream, buff, phase, amp, type, ci, fault>>
  /\ UNCHANGED members
  /\ UNCHANGED gui
  /\ UNCHANGED <<starts, writes, spent, cyc, conn, sqPending, lastPublish, pubCount>>

\* SimDelay after which the phase accumulator starts over
SimDelay_ResetsPhase ==
  /\ pc = "send"
  /\ ~hardware_connected
  /\ pc' = "publish"
  /\ phase' = 0
  /\ UNCHANGED members
  /\ UNCHANGED <<usrp, tx_stream, md, buff, amp, type, ci>>
  /\ UNCHANGED gui
  /\ UNCHANGED history

\* not hardware_connected: QThread::usleep(2000)
SimDelay ==
  /\ pc = "send"
  /\ ~hardware_connected
  /\ pc' = "publish"
  /\ UNCHANGED members
  /\ UNCHANGED <<usrp, tx_stream, md, buff, phase, amp, type, ci>>
  /\ UNCHANGED gui
  /\ UNCHANGED history

\* TryLock as a blocking lock(): the worker waits for the mutex
TryLock_Blocking ==
  /\ pc = "publish"
  /\ data_mutex = "free"
  /\ data_mutex' = "worker"
  /\ pc' = "copy"
  /\ ci' = 0
  /\ UNCHANGED <<running, hardware_connected, frequency, gain, amplitude,
                 waveform_type, shared_buffer, device_args>>
  /\ UNCHANGED <<usrp, tx_stream, md, buff, phase, amp, type>>
  /\ UNCHANGED gui
  /\ UNCHANGED history

\* TryLock that proceeds to the copy whoever holds the mutex
TryLock_NoExclusion ==
  /\ pc = "publish"
  /\ data_mutex' = "worker"
  /\ pc' = "copy"
  /\ ci' = 0
  /\ UNCHANGED <<running, hardware_connected, frequency, gain, amplitude,
                 waveform_type, shared_buffer, device_args>>
  /\ UNCHANGED <<usrp, tx_stream, md, buff, phase, amp, type>>
  /\ UNCHANGED gui
  /\ UNCHANGED history

\* if (data_mutex.tryLock()): taken when free, else the publish is skipped
TryLock ==
  /\ pc = "publish"
  /\ IF data_mutex = "free"
       THEN /\ data_mutex' = "worker"
            /\ pc' = "copy"
            /\ ci' = 0
            /\ UNCHANGED <<lastPublish, pubCount, sqPending>>
       ELSE /\ pc' = "loop"
            /\ lastPublish' = "skipped"
            /\ UNCHANGED <<data_mutex, ci, sqPending, pubCount>>
  /\ UNCHANGED <<running, hardware_connected, frequency, gain, amplitude,
                 waveform_type, shared_buffer, device_args>>
  /\ UNCHANGED <<usrp, tx_stream, md, buff, phase, amp, type>>
  /\ UNCHANGED gui
  /\ UNCHANGED <<starts, writes, spent, cyc, conn, tx_log, afterStop, fault>>

\* shared_buffer = buff, one piece of the vector copy
CopyOut ==
  /\ pc = "copy"
  /\ ci < Len(buff)
  /\ shared_buffer' = IF ci < Len(shared_buffer)
                        THEN [shared_buffer EXCEPT ![ci + 1] = buff[ci + 1]]
                        ELSE Append(shared_buffer, buff[ci + 1])
  /\ ci' = ci + 1
  /\ UNCHANGED <<running, hardware_connected, frequency, gain, amplitude,
                 waveform_type, data_mutex, device_args>>
  /\ UNCHANGED <<pc, usrp, tx_stream, md, buff, phase, amp, type>>
  /\ UNCHANGED gui
  /\ UNCHANGED history

\* data_mutex.unlock(): the snapshot is published
Unlock ==
  /\ pc = "copy"
  /\ ci >= Len(buff)
  /\ data_mutex' = "free"
  /\ pc' = "loop"
  /\ ci' = 0
  /\ lastPublish' = "ok"
  /\ pubCount' = pubCount + 1
  /\ afterStop' = IF running THEN afterStop
                  ELSE [afterStop EXCEPT !.pubs = @ + 1]
  /\ sqPending' = IF sqPending = "loaded" THEN "shown" ELSE sqPending
  /\ UNCHANGED <<running, hardware_connected, frequency, gain, amplitude,
                 waveform_type, shared_buffer, device_args>>
  /\ UNCHANGED <<usrp, tx_stream, md, buff, phase, amp, type>>
  /\ UNCHANGED gui
  /\ UNCHANGED <<starts, writes, spent, cyc, conn, tx_log, fault>>

\* after the loop, hardware_connected: end_of_burst = true; send("", 0, md)
BurstEnd ==
  /\ pc = "burst_end"
  /\ hardware_connected
  /\ tx_stream /= "null"
  /\ tx_log' = Append(tx_log,
                 SendCall("end", [md EXCEPT !.end_of_burst = TRUE], tx_stream))
  /\ RunReturns
  /\ UNCHANGED members
  /\ UNCHANGED gui
  /\ UNCHANGED <<starts, writes, spent, cyc, conn, afterStop, sqPending,
                 lastPublish, pubCount, fault>>

\* after the loop, the terminating send throws: nothing catches it
BurstEndThrows ==
  /\ pc = "burst_end"
  /\ hardware_connected
  /\ tx_stream /= "null"
  /\ tx_log' = Append(tx_log,
                 SendCall("end", [md EXCEPT !.end_of_burst = TRUE], tx_stream))
  /\ ProcessEnds("send_throw")
  /\ UNCHANGED members
  /\ UNCHANGED gui
  /\ UNCHANGED <<starts, writes, spent, cyc, conn, afterStop, sqPending,
                 lastPublish, pubCount>>

\* after the loop, hardware_connected but tx_stream is null: undefined
\* behaviour; the call either faults or returns
BurstEndOnNull(faults) ==
  /\ pc = "burst_end"
  /\ hardware_connected
  /\ tx_stream = "null"
  /\ tx_log' = Append(tx_log,
                 SendCall("end", [md EXCEPT !.end_of_burst = TRUE], tx_stream))
  /\ IF faults
       THEN ProcessEnds("null_call")
       ELSE RunReturns /\ UNCHANGED fault
  /\ UNCHANGED members
  /\ UNCHANGED gui
  /\ UNCHANGED <<starts, writes, spent, cyc, conn, afterStop, sqPending,
                 lastPublish, pubCount>>

\* after the loop, not hardware_connected: run() returns
RunEnd ==
  /\ pc = "burst_end"
  /\ ~hardware_connected
  /\ RunReturns
  /\ UNCHANGED members
  /\ UNCHANGED gui
  /\ UNCHANGED history

\* ---------------------------------------------------------- specifications
\* the worker thread
WorkerStep(cap) ==
  \/ ConnectSkipped
  \/ ConnectOk
  \/ \E failStep \in ConnectSteps : ConnectFail(failStep)
  \/ LoopEnter(cap)
  \/ LoopExit
  \/ LoadAmp
  \/ LoadType
  \/ Generate
  \/ SendData
  \/ SendThrows
  \/ \E faults \in BOOLEAN : SendOnNull(faults)
  \/ SimDelay
  \/ TryLock
  \/ CopyOut
  \/ Unlock
  \/ BurstEnd
  \/ BurstEndThrows
  \/ \E faults \in BOOLEAN : BurstEndOnNull(faults)
  \/ RunEnd

\* the connect button and the status timer
LifecycleStep ==
  \/ \E args \in DeviceIds : ToggleStart(args)
  \/ ToggleStop
  \/ WaitDone
  \/ TimerFired

\* the radio settings read by the connection attempt
TuningStep ==
  \/ \E v \in FreqValues : SetFrequency(v)
  \/ \E v \in GainValues : SetGain(v)

\* the waveform settings read by every cycle
WaveformStep ==
  \/ \E v \in AmpValues : SetAmplitude(v)
  \/ \E idx \in WaveValues : SetWaveform(idx)

\* the 33 ms plot timer
PlotStep ==
  \/ PlotLock
  \/ PlotCopy
  \/ PlotUnlock

\* lifecycle and transport: connect button, status timer, radio settings,
\* plot timer and the worker
Next == LifecycleStep \/ TuningStep \/ PlotStep \/ WorkerStep(MaxCycles)

Spec == Init /\ [][Next]_vars

\* the worker thread is scheduled while it can run, and wait() returns once
\* the thread has finished
FairSpec ==
  /\ Spec
  /\ WF_vars(WorkerStep(MaxCycles))
  /\ WF_vars(WaitDone)

\* synthesis and snapshot: connect button, waveform settings, plot timer
\* and the worker
ViewNext ==
  \/ \E args \in DeviceIds : ToggleStart(args)
  \/ ToggleStop
  \/ WaitDone
  \/ WaveformStep
  \/ PlotStep
  \/ WorkerStep(MaxCycles)

ViewSpec == Init /\ [][ViewNext]_vars

\* one long simulation run: start in Simulation Mode, the amplitude box,
\* the plot timer and the worker
LongNext ==
  \/ ToggleStart("")
  \/ \E v \in AmpValues : SetAmplitude(v)
  \/ PlotStep
  \/ ConnectSkipped
  \/ LoopEnter(LongRunCycles)
  \/ LoadAmp
  \/ LoadType
  \/ Generate
  \/ SimDelay
  \/ TryLock
  \/ CopyOut
  \/ Unlock

LongSpec == Init /\ [][LongNext]_vars

\* start and stop: the connect button and the worker, the worker thread
\* scheduled while it can run and wait() returning once it has finished
RestartNext ==
  \/ \E args \in DeviceIds : ToggleStart(args)
  \/ ToggleStop
  \/ WaitDone
  \/ WorkerStep(MaxCycles)

RestartSpec ==
  /\ Init
  /\ [][RestartNext]_vars
  /\ WF_vars(WorkerStep(MaxCycles))
  /\ WF_vars(WaitDone)

\* the settings: connect button, all four setting boxes and the worker
SettingsNext ==
  \/ \E args \in DeviceIds : ToggleStart(args)
  \/ ToggleStop
  \/ WaitDone
  \/ TuningStep
  \/ WaveformStep
  \/ WorkerStep(MaxCycles)

SettingsSpec == Init /\ [][SettingsNext]_vars

\* one uninterrupted run of many cycles, in simulation or on a device whose
\* connect and sends succeed: start and the worker
PhaseNext ==
  \/ \E args \in DeviceIds : ToggleStart(args)
  \/ ConnectSkipped
  \/ ConnectOk
  \/ LoopEnter(WrapCycles)
  \/ LoadAmp
  \/ LoadType
  \/ Generate
  \/ SendData
  \/ SimDelay
  \/ TryLock
  \/ CopyOut
  \/ Unlock

PhaseSpec == Init /\ [][PhaseNext]_vars

\* ----------------------------------------------------------------- claims
DataSends == SelectSeq(tx_log, LAMBDA c : c.kind = "data")

EndSends == SelectSeq(tx_log, LAMBDA c : c.kind = "end")

\* v is one whole buffer as a single cycle generated it
WholeBuffer(v) ==
  /\ Len(v) = NChunks
  /\ SizeOf(v) = buff_size
  /\ v = GenBuffer(v[1].type, v[1].amp, v[1].ph0, v[1].run, v[1].cyc)

\* C1: a run started with an empty device identifier operates in
\* simulation, whatever runs preceded it: hardware_connected is false
\* during the run and the run makes no call of tx_stream->send.
C1_SimulationRunTouchesNoHardware ==
  (starts > 0 /\ device_args = "") =>
     /\ isRunning => ~hardware_connected
     /\ tx_log = << >>

\* C2: a connection attempt that fails at any step is caught: the flag
\* hardware_connected is false from then on, the run makes no send, the
\* connect is not attempted again, and the thread ends only on a stop.
C2_ConnectFailureFallsBack ==
  conn = "fail" =>
     /\ ~hardware_connected
     /\ tx_log = << >>
     /\ pc /= "connect"
     /\ alive
     /\ pc = "stopped" => ~running

C2_Witness ==
  /\ conn = "fail"
  /\ starts = 2
  /\ cyc = 1
  /\ pc = "publish"

\* C3: a data send that fails after a successful connect is caught, the
\* session continues in simulation and the loop keeps running.
C3_SendFailureDegrades ==
  (conn = "ok" /\ fault = "send_throw" /\ tx_log[Len(tx_log)].kind = "data")
     => (alive /\ ~hardware_connected)

\* C4: once stop is requested the worker sends at most one more data
\* buffer and publishes at most one more snapshot, and it reaches Stopped.
StopRequested == gpc = "wait" /\ ~running

C4_StopWithinOneCycle ==
  /\ [](afterStop.sends <= 1 /\ afterStop.pubs <= 1)
  /\ (StopRequested ~> pc = "stopped")

\* C5: in a hardware session the first data send has start_of_burst set
\* and every later data send has it cleared, in every session.
C5_StartOfBurstOnFirstSendOnly ==
  conn = "ok" =>
     \A i \in 1..Len(DataSends) : DataSends[i].start_of_burst = (i = 1)

C5_Witness ==
  /\ conn = "ok"
  /\ starts = 2
  /\ Len(DataSends) = 2
  /\ DataSends[1].start_of_burst
  /\ ~DataSends[2].start_of_burst

\* C6: a hardware run that stops makes exactly one zero-length send with
\* end_of_burst set, as its last transmission; no data send has
\* end_of_burst set; a run that is not streaming makes no terminating send.
C6_TerminatorOnlyWhenStreaming ==
  /\ (conn = "ok" /\ pc = "stopped") =>
        /\ Len(EndSends) = 1
        /\ tx_log[Len(tx_log)].kind = "end"
        /\ tx_log[Len(tx_log)].end_of_burst
  /\ \A i \in 1..Len(DataSends) : ~DataSends[i].end_of_burst
  /\ conn \in {"sim", "fail"} => Len(EndSends) = 0

\* C7: the publish step never waits for data_mutex: it can always be
\* taken, and it either acquires the free mutex and goes on to replace
\* shared_buffer with buff, or leaves shared_buffer alone and goes to the
\* next cycle while the reader keeps the mutex.
C7_PublishNeverWaits ==
  /\ [](pc = "publish" => ENABLED TryLock)
  /\ [][pc = "publish" /\ pc' /= "publish" =>
          IF data_mutex = "free"
            THEN pc' = "copy" /\ data_mutex' = "worker"
            ELSE pc' = "loop" /\ UNCHANGED <<data_mutex, shared_buffer>>]_vars
  /\ [][pc = "copy" /\ pc' = "loop" => shared_buffer' = buff]_vars

C7_Witness ==
  /\ lastPublish = "skipped"
  /\ data_mutex = "gui"
  /\ pc = "load_amp"
  /\ cyc = 1

\* C8: the copy updatePlot takes is empty or one whole buffer of
\* buff_size samples that a single cycle generated, never a mix.
C8_ReaderSeesWholeBuffer ==
  (gpc = "plot" /\ gi >= Len(shared_buffer)) =>
     (local_data = << >> \/ WholeBuffer(local_data))

C8_Witness ==
  /\ gpc = "plot"
  /\ gi = NChunks
  /\ WholeBuffer(local_data)
  /\ pc = "publish"
  /\ buff /= local_data

\* C9 as stated: the first buffer published after SQUARE is selected
\* during a run has every sample at +amplitude or -amplitude.
C9_NextPublishedIsSquare ==
  [][(pc = "copy" /\ pc' = "loop" /\ sqPending /= "no")
        => AllPlusMinusAmp(shared_buffer')]_vars

\* C9 amended: the first buffer published from a cycle that read the
\* selector after SQUARE was selected has every sample at +amplitude or
\* -amplitude (the amplitude that cycle read).
C9_SquareFromNextLoadedCycle ==
  [][(pc = "copy" /\ pc' = "loop" /\ sqPending = "loaded")
        => AllPlusMinusAmp(shared_buffer')]_vars

C9_Witness ==
  /\ sqPending = "shown"
  /\ lastPublish = "ok"
  /\ pc = "loop"
  /\ shared_buffer = buff
  /\ buff[1].type = 1
  /\ buff[1].cyc = 2
  /\ AllPlusMinusAmp(shared_buffer)

\* a simulation run at amplitude 0.5, SINE, ten cycles done, each published
TenCyclesPublished ==
  /\ conn = "sim"
  /\ ~hardware_connected
  /\ amplitude = 5
  /\ waveform_type = 0
  /\ cyc = 10
  /\ pubCount = 10
  /\ pc = "loop"
  /\ shared_buffer[1].amp = 5
  /\ shared_buffer[1].type = 0

\* C10 as stated: after ten published cycles sample 0 of the snapshot is
\* at phase 0: real 0.5, imag 0.
C10_SampleZeroAtPhaseZero ==
  TenCyclesPublished => SampleAt(shared_buffer, 0) = [re |-> 5000, im |-> 0]

\* C10 amended: after ten published cycles sample 0 of the snapshot is the
\* first sample of the tenth buffer, 9 * buff_size increments after phase 0,
\* which is 32/100 of a turn: real -0.2130, imag 0.4525.
C10_SampleZeroContinuesPhase ==
  TenCyclesPublished =>
     /\ shared_buffer[1].ph0 = PhaseAfter(0, 9 * buff_size)
     /\ shared_buffer[1].ph0 = 32
     /\ SampleAt(shared_buffer, 0) = [re |-> -2130, im |-> 4525]

C10_Witness ==
  /\ TenCyclesPublished
  /\ shared_buffer[1].cyc = 10

C13_PhaseContinuity ==
  /\ []((isRunning /\ conn /= "none") =>
          phase % PhasePeriod = (cyc * buff_size) % PhasePeriod)
  /\ [][(cyc' = cyc + 1 /\ cyc >= 1) =>
          buff'[1].ph0 = PhaseStep(PhaseAfter(buff[1].ph0, buff_size - 1))]_vars
  /\ [][(pc \in {"loop", "load_amp", "load_type", "send", "publish", "copy"})
           => (phase' = phase)]_vars

C13_Witness ==
  /\ cyc = 2
  /\ phase = 96
  /\ buff[1].ph0 = 48
  /\ writes = 1
  /\ amplitude /= AmpInit
  /\ buff[1].amp = amplitude
  /\ lastPublish = "skipped"
  /\ pc = "loop"

\* C14: once the connection attempt of a run is over and the status timer
\* of that start has fired, the status shown is the mode of the run:
\* TX ACTIVE exactly when it streams to the device, SIMULATION exactly when
\* it simulates, however long the connect took against the 500 ms timer.
C14_StatusMatchesMode ==
  (isRunning /\ conn /= "none" /\ timers = 0 /\ guiIdle) =>
     /\ statusLabel = "TX ACTIVE" <=> conn = "ok"
     /\ statusLabel = "SIMULATION" <=> conn \in {"sim", "fail"}

\* the positions of run() inside while (running)
InLoop == pc \in {"loop", "load_amp", "load_type", "generate", "send",
                  "publish", "copy"}

\* C15: frequency and gain are read by the connection attempt only: no
\* step taken while the worker is in its loop, a write of frequency or gain
\* included, configures the device or changes a buffer, a snapshot or the
\* phase; amplitude and waveform selector are read afresh by every cycle,
\* and the buffer of the cycle is generated from the values it read.
C15_TuningAtConnectOnly ==
  /\ [][InLoop => usrp' = usrp]_vars
  /\ [][(frequency' /= frequency \/ gain' /= gain) =>
          UNCHANGED <<usrp, tx_log, buff, shared_buffer, phase, amp, type>>]_vars
  /\ []((conn = "ok" /\ isRunning) => usrp.rate = sample_rate)
  /\ [][(pc = "load_amp" /\ pc' = "load_type") => amp' = amplitude]_vars
  /\ [][(pc = "load_type" /\ pc' = "generate") => type' = waveform_type]_vars
  /\ [][(cyc' = cyc + 1) =>
          \A k \in 1..NChunks : buff'[k].amp = amp /\ buff'[k].type = type]_vars

C15_Witness ==
  /\ conn = "ok"
  /\ writes = 1
  /\ usrp.freq = FreqInit
  /\ frequency /= FreqInit
  /\ cyc = 2
  /\ Len(tx_log) = 2
  /\ pc = "publish"

\* C16: the worker thread is started only when it is not running, and
\* device_args is written only then: there is never a second execution of
\* run() beside one in progress.
C16_SingleWorker ==
  /\ [][(starts' /= starts \/ device_args' /= device_args) =>
          (pc = "stopped" /\ pc' = "connect")]_vars
  /\ [][(pc' = "connect" /\ pc /= "connect") => pc = "stopped"]_vars
  /\ [][(isRunning /\ running' /= running) => (~running' /\ gpc' = "wait")]_vars

C16_Witness ==
  /\ starts = 2
  /\ device_args = "dev"
  /\ conn = "ok"
  /\ pc = "send"
  /\ statusLabel = "STANDBY"
  /\ timers = 2

\* every piece of v was computed from one amplitude and one selector value
Homogeneous(v) ==
  \A i, j \in 1..Len(v) : v[i].amp = v[j].amp /\ v[i].type = v[j].type

\* C17: the buffer a cycle sends and publishes, and every published
\* snapshot, is computed from one amplitude and one selector value, the
\* ones the cycle read at its start; the locals that hold them are
\* assigned by those two reads only.
C17_HomogeneousBuffers ==
  /\ [](Homogeneous(buff))
  /\ [](data_mutex /= "worker" => Homogeneous(shared_buffer))
  /\ []((pc \in {"send", "publish", "copy"}) =>
          \A k \in 1..Len(buff) : buff[k].amp = amp /\ buff[k].type = type)
  /\ [][(InLoop /\ amp' /= amp) => pc = "load_amp"]_vars
  /\ [][(InLoop /\ type' /= type) => pc = "load_type"]_vars

C17_Witness ==
  /\ pc = "publish"
  /\ writes = 1
  /\ buff[1].cyc = 2
  /\ buff[1].amp /= amplitude
  /\ buff[NChunks].amp = amp
  /\ Homogeneous(buff)

\* C18: while the worker is Stopped and the GUI is idle the status shown
\* is STANDBY and the connect button is not checked.
C18_StandbyWhenStopped ==
  (pc = "stopped" /\ guiIdle) => (statusLabel = "STANDBY" /\ ~connectBtn)

\* C19: in a hardware session the terminating send does not carry
\* start_of_burst, and a data send came before it.
C19_TerminatorNotStartOfBurst ==
  conn = "ok" =>
     \A i \in 1..Len(tx_log) :
        tx_log[i].kind = "end" =>
           /\ ~tx_log[i].start_of_burst
           /\ \E j \in 1..(i - 1) : tx_log[j].kind = "data"

====
